---- MODULE Spec2Model ----
(***************************************************************************)
(* Hike distance tracker: src/routes/+page.svelte.                         *)
(*                                                                         *)
(* The component is a set of module-level variables mutated by event-loop  *)
(* callbacks: button clicks (Start, Stop, Reset), the resolution of the    *)
(* one-shot getCurrentPosition request awaited inside startTracking, the   *)
(* success and error callbacks of watchPosition, the 1-second interval     *)
(* callback, the permission query / change callbacks and the onMount       *)
(* cleanup.  Each callback runs to completion (single-threaded event       *)
(* loop), so each is one action.  startTracking is split at its one await. *)
(*                                                                         *)
(* Numbers.  The code computes on IEEE-754 doubles.  Here a real x is the  *)
(* integer round(x * Scale) (fixed point, round to nearest, ties away from *)
(* zero), so that every arithmetic step of calculateDistance rounds as the *)
(* code's steps do, and NaN is the one value NaN below.  Distances are in  *)
(* whole metres, times in whole seconds.                                   *)
(***************************************************************************)
EXTENDS Integers, Sequences, FiniteSets, TLC

(***************************************************************************)
(* Bounds of the model.                                                    *)
(***************************************************************************)
\* successful or in-flight start attempts explored (watch / interval ids)
MaxStarts == 2
\* readings retained in `positions` at most
MaxReadings == 3
\* the wall clock runs from 0 to MaxNow seconds
MaxNow == 1

(***************************************************************************)
(* Fixed-point arithmetic standing for the doubles of the code.            *)
(***************************************************************************)
Scale == 100 * 100

\* Math.PI, scaled
PI == 31416

\* const R = 6371e3 (metres)
R == 6371000

\* The double NaN.  It arises only from Math.sqrt of a negative number and
\* flows through atan2, R * c and distance, whose proper values are >= 0.
NaN == -1

IsNaN(x) == x = NaN

\* a / b rounded to nearest, ties away from zero (b > 0)
RDiv(a, b) == IF a >= 0 THEN (2 * a + b) \div (2 * b)
                        ELSE -((2 * (-a) + b) \div (2 * b))

\* x * y of two scaled numbers
Mul(x, y) == RDiv(x * y, Scale)

\* Math.sin on [-PI/2, PI/2]: Taylor polynomial of degree 9
SinSeries(x) ==
    LET x2 == Mul(x, x)
        t1 == x
        t3 == RDiv(Mul(t1, x2), 6)
        t5 == RDiv(Mul(t3, x2), 20)
        t7 == RDiv(Mul(t5, x2), 42)
        t9 == RDiv(Mul(t7, x2), 72)
    IN  t1 - t3 + t5 - t7 + t9

\* Math.sin on [-PI, PI]
Sin(x) ==
    LET h == RDiv(PI, 2)
    IN  IF x > h THEN SinSeries(PI - x)
        ELSE IF x < -h THEN SinSeries(-PI - x)
        ELSE SinSeries(x)

\* Math.cos on [-PI/2, PI/2]: Taylor polynomial of degree 10
Cos(x) ==
    LET x2 == Mul(x, x)
        c0 == Scale
        c2 == RDiv(Mul(c0, x2), 2)
        c4 == RDiv(Mul(c2, x2), 12)
        c6 == RDiv(Mul(c4, x2), 30)
        c8 == RDiv(Mul(c6, x2), 56)
        c10 == RDiv(Mul(c8, x2), 90)
    IN  c0 - c2 + c4 - c6 + c8 - c10

RECURSIVE SqrtSearch(_, _, _)
\* the largest r in lo..hi with r * r <= n
SqrtSearch(n, lo, hi) ==
    IF lo >= hi THEN lo
    ELSE LET mid == (lo + hi + 1) \div 2
         IN  IF mid * mid <= n THEN SqrtSearch(n, mid, hi)
                               ELSE SqrtSearch(n, lo, mid - 1)

\* Math.sqrt of a scaled number in [0, 2]: NaN for a negative argument
Sqrt(x) ==
    IF IsNaN(x) \/ x < 0 THEN NaN
    ELSE LET n == x * Scale
             r == SqrtSearch(n, 0, 2 * Scale)
         IN  IF (r + 1) * (r + 1) - n < n - r * r THEN r + 1 ELSE r

\* Math.atan on [0, sqrt(2) - 1]: Taylor polynomial of degree 9
AtanSeries(t) ==
    LET t2 == Mul(t, t)
        p3 == Mul(t, t2)
        p5 == Mul(p3, t2)
        p7 == Mul(p5, t2)
        p9 == Mul(p7, t2)
    IN  t - RDiv(p3, 3) + RDiv(p5, 5) - RDiv(p7, 7) + RDiv(p9, 9)

\* Math.atan on [0, 1]: atan t = 2 atan(t / (1 + sqrt(1 + t^2)))
Atan(t) == 2 * AtanSeries(RDiv(t * Scale, Scale + Sqrt(Scale + Mul(t, t))))

\* Math.atan2 with its arguments taken in the other order
Atan2_Swapped(y, x) ==
    IF IsNaN(y) \/ IsNaN(x) THEN NaN
    ELSE IF y = 0 /\ x = 0 THEN 0
    ELSE IF x <= y THEN Atan(RDiv(x * Scale, y))
    ELSE RDiv(PI, 2) - Atan(RDiv(y * Scale, x))

\* Math.atan2(y, x) for y, x >= 0; NaN if either argument is NaN
Atan2(y, x) ==
    IF IsNaN(y) \/ IsNaN(x) THEN NaN
    ELSE IF y = 0 /\ x = 0 THEN 0
    ELSE IF y <= x THEN Atan(RDiv(y * Scale, x))
    ELSE RDiv(PI, 2) - Atan(RDiv(x * Scale, y))

\* x + y of two doubles that are >= 0 or NaN
Plus(x, y) == IF IsNaN(x) \/ IsNaN(y) THEN NaN ELSE x + y

\* the haversine distance in metres between two points given in degrees
calculateDistance(lat1, lon1, lat2, lon2) ==
    LET phi1 == RDiv(lat1 * PI, 180)
        phi2 == RDiv(lat2 * PI, 180)
        dphi == RDiv((lat2 - lat1) * PI, 180)
        dlam == RDiv((lon2 - lon1) * PI, 180)
        sp == Sin(RDiv(dphi, 2))
        sl == Sin(RDiv(dlam, 2))
        a == Mul(sp, sp) + Mul(Mul(Mul(Cos(phi1), Cos(phi2)), sl), sl)
        t == Atan2(Sqrt(a), Sqrt(Scale - a))
        c == IF IsNaN(t) THEN NaN ELSE 2 * t
    IN  \* R * c, in metres (R is taken in km to stay within 32 bits)
        IF IsNaN(c) THEN NaN
        ELSE RDiv((R \div 1000) * c, Scale \div 1000)

(***************************************************************************)
(* Values.                                                                 *)
(***************************************************************************)
\* null / undefined; a present value v is <<v>>
Null == << >>

Some(v) == <<v>>

\* JavaScript truthiness of an optional number (if (watchId),
\* if (elapsedTimeInterval)): null and 0 are falsy
Truthy(o) == o # Null /\ o # Some(0)

\* Readings the platform may deliver: <<latitude, longitude>> in degrees.
\* <<-12, 180>> is the antipode of <<12, 0>>.
Coords == { <<12, 0>>, <<12, 30>>, <<-12, 180>> }

\* two of them, some 3300 km apart
NearCoords == { <<12, 0>>, <<12, 30>> }

\* navigator.userAgent, as the sequence of product tokens it contains
UserAgents == { <<"Mozilla", "iPad", "Safari">>,
                <<"Mozilla", "Linux", "Android", "Chrome">>,
                <<"Mozilla", "Windows Phone", "Android", "iPhone">>,
                <<"Mozilla", "Windows NT", "Firefox">> }

\* GeolocationPositionError.code: 1 PERMISSION_DENIED, 2 POSITION_UNAVAILABLE,
\* 3 TIMEOUT; 4 stands for any other value
ErrorCodes == 1..4

\* GeolocationPositionError.message: a text of the platform's
Messages == { "User denied Geolocation" }

\* PermissionStatus.state
PermissionStates == { "granted", "denied" }

\* Date.getTimezoneOffset of the host, in minutes east of UTC
TimeZones == { 0, 330 }

\* the first id setInterval returns, an integer greater than zero; ids are
\* counted up
FirstHandle == 1

\* The first handle watchPosition may return, handles being counted up.
\* Browsers of today start at 1; the handle is a long with no meaning to
\* the page, and engines have started at 0.
HandleBases == { 0, 1 }

VARIABLES
    \* the component's variables (lines 4-15)
    tracking, distance, positions, watchId, error, permissionStatus,
    startTime, endTime, elapsedTimeInterval, currentElapsedTime,
    \* the platform
    geolocation,     \* navigator.geolocation is present
    userAgent,       \* navigator.userAgent
    timeZone,        \* the host's time-zone offset
    handleBase,      \* the first handle watchPosition returns
    now,             \* Date.now(), in seconds
    watches,         \* handles registered by watchPosition, not yet cleared
    intervals,       \* ids registered by setInterval, not yet cleared
    nextHandle,      \* the next interval id; counts the handles handed out
    oneShots,        \* getCurrentPosition requests awaited by startTracking
    queryPending,    \* the promise of navigator.permissions.query is
                     \* unresolved (where the Permissions API is absent no
                     \* permission callback ever runs, as when it stays so)
    mounted,         \* the component is mounted (its buttons exist)
    \* history, read by the properties only
    staleShots,      \* of oneShots, those that a stop or teardown overtook
    awaitingFirst,   \* "fresh" / "stale": no Reading was delivered since the
                     \* last successful start, whose request was such;
                     \* "no" otherwise
    readingCleared   \* the last Reading delivered found an error showing

vars == << tracking, distance, positions, watchId, error, permissionStatus,
           startTime, endTime, elapsedTimeInterval, currentElapsedTime,
           geolocation, userAgent, timeZone, handleBase, now, watches,
           intervals, nextHandle, oneShots, queryPending, mounted,
           staleShots, awaitingFirst, readingCleared >>

progVars == << tracking, distance, positions, watchId, error,
               permissionStatus, startTime, endTime, elapsedTimeInterval,
               currentElapsedTime >>

envVars == << geolocation, userAgent, timeZone, handleBase >>


(***************************************************************************)
(* Pure functions of the component.                                        *)
(***************************************************************************)
\* RegExp.test on the user agent: some alternative occurs in it
Test(alternatives, ua) == \E i \in DOMAIN ua : ua[i] \in alternatives

IOSInstructions ==
    "To enable location tracking on iOS:\n1. Go to Settings\n2. Scroll down to Safari\n3. Tap 'Location'\n4. Select 'Allow' for this website"

AndroidInstructions ==
    "To enable location tracking on Android:\n1. Open browser settings\n2. Go to Site settings > Location\n3. Enable location access for this website"

GenericInstructions ==
    "Please enable location services in your browser settings for this website"

\* getPermissionInstructions with its two tests in the other order
getPermissionInstructions_AndroidFirst(ua) ==
    IF Test({"Android"}, ua) THEN AndroidInstructions
    ELSE IF Test({"iPhone", "iPad", "iPod"}, ua) THEN IOSInstructions
    ELSE GenericInstructions

getPermissionInstructions(ua) ==
    IF Test({"iPhone", "iPad", "iPod"}, ua) THEN IOSInstructions
    ELSE IF Test({"Android"}, ua) THEN AndroidInstructions
    ELSE GenericInstructions

\* Number.toString of a natural number, as its decimal digits
RECURSIVE toString(_)
toString(n) == IF n < 10 THEN <<n>> ELSE Append(toString(n \div 10), n % 10)

\* String.padStart(2, '0')
padStart2(s) == IF Len(s) < 2 THEN <<0>> \o s ELSE s

\* `${hours}:${minutes}:${seconds}` as <<hours, minutes, seconds>>, each a
\* string of digits.  elapsed is a Date: getMinutes and getSeconds read it
\* in the host's local time.
formatElapsedTime(start, nowSec, tz) ==
    LET elapsed == nowSec - start
        local   == elapsed + tz * 60
        hours   == elapsed \div 3600
        minutes == padStart2(toString((local \div 60) % 60))
        seconds == padStart2(toString(local % 60))
    IN  << toString(hours), minutes, seconds >>

\* '00:00:00'
ZeroElapsed == << <<0, 0>>, <<0, 0>>, <<0, 0>> >>

\* calculateDistance(p.latitude, p.longitude, q.latitude, q.longitude) for
\* the Readings p, q the platform may deliver, computed once
Distances ==
    [ p \in Coords, q \in Coords |-> calculateDistance(p[1], p[2], q[1], q[2]) ]

\* updateDistance measuring from the first retained Reading, not the last
updateDistance_FromFirst(dist, poss, position) ==
    LET lastPos == poss[1]
        newDistance == Distances[lastPos, position]
    IN  [ distance  |-> IF Len(poss) > 0 THEN Plus(dist, newDistance)
                                         ELSE dist,
          positions |-> Append(poss, position) ]

\* the value of `distance` and `positions` after updateDistance(position)
updateDistance(dist, poss, position) ==
    LET lastPos == poss[Len(poss)]
        newDistance == Distances[lastPos, position]
    IN  [ distance  |-> IF Len(poss) > 0 THEN Plus(dist, newDistance)
                                         ELSE dist,
          positions |-> Append(poss, position) ]

\* the message set by the error callback of watchPosition
watchErrorMessage(code, message, ua) ==
    IF code = 1
        THEN << "Location permission denied.\n\n", getPermissionInstructions(ua) >>
    ELSE IF code = 2
        THEN << "Unable to determine your location. Please check if location services are enabled." >>
    ELSE IF code = 3
        THEN << "Location request timed out. Please try again." >>
    ELSE << "Error: ", message >>

\* the message set by the catch block of startTracking for a rejected
\* getCurrentPosition (err is a GeolocationPositionError)
startErrorMessage(code, message, ua) ==
    IF code = 1
        THEN << "Location permission denied.\n\n", getPermissionInstructions(ua) >>
    ELSE << "Error starting tracking: ", message >>

UnsupportedMessage == << "Geolocation is not supported by your browser" >>

(***************************************************************************)
(* The state after the script block has run.                               *)
(***************************************************************************)
InitWith(agents, zones, bases) ==
    /\ tracking = FALSE
    /\ distance = 0
    /\ positions = << >>
    /\ watchId = Null
    /\ error = Null
    /\ permissionStatus = Null
    /\ startTime = Null
    /\ endTime = Null
    /\ elapsedTimeInterval = Null
    /\ currentElapsedTime = ZeroElapsed
    /\ geolocation \in BOOLEAN
    /\ userAgent \in agents
    /\ timeZone \in zones
    /\ handleBase \in bases
    /\ now = 0
    /\ watches = {}
    /\ intervals = {}
    /\ nextHandle = FirstHandle
    /\ oneShots = 0
    /\ queryPending = TRUE
    /\ mounted = TRUE
    /\ staleShots = 0
    /\ awaitingFirst = "no"
    /\ readingCleared = FALSE

\* the same on a platform whose watch handles start at 1
InitOver(agents, zones) == InitWith(agents, zones, {1})

(***************************************************************************)
(* Helpers of the component, as relations on the variables they write.     *)
(***************************************************************************)
\* startElapsedTimeCounter, called with startTime already set to st (a
\* Date is an object: if (startTime) tests it against null only)
startElapsedTimeCounter(st) ==
    IF st # Null
        THEN /\ elapsedTimeInterval' = Some(nextHandle)
             /\ intervals' = intervals \cup {nextHandle}
        ELSE UNCHANGED << elapsedTimeInterval, intervals >>

\* stopElapsedTimeCounter: clearInterval of an id that is not registered
\* does nothing
stopElapsedTimeCounter ==
    /\ intervals' = IF Truthy(elapsedTimeInterval)
                        THEN intervals \ {elapsedTimeInterval[1]}
                        ELSE intervals
    /\ UNCHANGED elapsedTimeInterval

\* stopTracking: the whole function
stopTracking ==
    IF Truthy(watchId)
        THEN /\ watches' = watches \ {watchId[1]}
             /\ tracking' = FALSE
             /\ endTime' = Some(now)
             /\ stopElapsedTimeCounter
        ELSE UNCHANGED << watches, tracking, endTime, intervals,
                          elapsedTimeInterval >>

\* resetTracking: the whole function
resetTracking ==
    /\ distance' = 0
    /\ positions' = << >>
    /\ startTime' = Null
    /\ endTime' = Null
    /\ currentElapsedTime' = ZeroElapsed
    /\ error' = Null

(***************************************************************************)
(* The callbacks.                                                          *)
(***************************************************************************)
\* on:click of the Start button, rendered {#if !tracking}: startTracking up
\* to its await (or to its early return)
ClickStart ==
    /\ mounted
    /\ ~tracking
    /\ IF ~geolocation
          THEN /\ error' = UnsupportedMessage
               /\ UNCHANGED oneShots
          ELSE /\ (nextHandle - FirstHandle) + oneShots < MaxStarts
               /\ oneShots' = oneShots + 1
               /\ UNCHANGED error
    /\ UNCHANGED << tracking, distance, positions, watchId, permissionStatus,
                    startTime, endTime, elapsedTimeInterval,
                    currentElapsedTime, envVars, now, watches, intervals,
                    nextHandle, queryPending, mounted, staleShots,
                    awaitingFirst,
                    readingCleared >>

\* startTracking resumed, without its `endTime = null`
OneShotSuccess_KeepsEndTime(stale) ==
    /\ IF stale THEN staleShots > 0 ELSE oneShots > staleShots
    /\ oneShots' = oneShots - 1
    /\ staleShots' = IF stale THEN staleShots - 1 ELSE staleShots
    /\ startTime' = Some(now)
    /\ startElapsedTimeCounter(startTime')
    /\ LET handle == handleBase + (nextHandle - FirstHandle)
       IN  /\ watchId' = Some(handle)
           /\ watches' = watches \cup {handle}
    /\ nextHandle' = nextHandle + 1
    /\ tracking' = TRUE
    /\ awaitingFirst' = IF stale THEN "stale" ELSE "fresh"
    /\ UNCHANGED << distance, positions, error, permissionStatus, endTime,
                    currentElapsedTime, envVars, now, queryPending, mounted,
                    readingCleared >>

\* getCurrentPosition resolves: startTracking from its await to its end.
\* stale: a stop or a teardown ran while this request was in flight.
OneShotSuccess(stale) ==
    /\ IF stale THEN staleShots > 0 ELSE oneShots > staleShots
    /\ oneShots' = oneShots - 1
    /\ staleShots' = IF stale THEN staleShots - 1 ELSE staleShots
    /\ startTime' = Some(now)
    /\ endTime' = Null
    /\ startElapsedTimeCounter(startTime')
    /\ LET handle == handleBase + (nextHandle - FirstHandle)
       IN  /\ watchId' = Some(handle)
           /\ watches' = watches \cup {handle}
    /\ nextHandle' = nextHandle + 1
    /\ tracking' = TRUE
    /\ awaitingFirst' = IF stale THEN "stale" ELSE "fresh"
    /\ UNCHANGED << distance, positions, error, permissionStatus,
                    currentElapsedTime, envVars, now, queryPending, mounted,
                    readingCleared >>

\* getCurrentPosition rejects: the catch block of startTracking
OneShotFailure(stale, code, message) ==
    /\ IF stale THEN staleShots > 0 ELSE oneShots > staleShots
    /\ oneShots' = oneShots - 1
    /\ staleShots' = IF stale THEN staleShots - 1 ELSE staleShots
    /\ error' = startErrorMessage(code, message, userAgent)
    /\ UNCHANGED << tracking, distance, positions, watchId, permissionStatus,
                    startTime, endTime, elapsedTimeInterval,
                    currentElapsedTime, envVars, now, watches, intervals,
                    nextHandle, queryPending, mounted, awaitingFirst,
                    readingCleared >>

\* the success callback without its `error = null`
WatchSuccess_KeepsError(position) ==
    /\ watches # {}
    /\ Len(positions) < MaxReadings
    /\ LET u == updateDistance(distance, positions, position)
       IN  /\ distance' = u.distance
           /\ positions' = u.positions
    /\ awaitingFirst' = "no"
    /\ readingCleared' = (error # Null)
    /\ UNCHANGED << tracking, watchId, error, permissionStatus, startTime,
                    endTime, elapsedTimeInterval, currentElapsedTime,
                    envVars, now, watches, intervals, nextHandle, oneShots,
                    queryPending, mounted, staleShots >>

\* the success callback of a registered watch
WatchSuccess(position) ==
    /\ watches # {}
    /\ Len(positions) < MaxReadings
    /\ error' = Null
    /\ LET u == updateDistance(distance, positions, position)
       IN  /\ distance' = u.distance
           /\ positions' = u.positions
    /\ awaitingFirst' = "no"
    /\ readingCleared' = (error # Null)
    /\ UNCHANGED << tracking, watchId, permissionStatus, startTime, endTime,
                    elapsedTimeInterval, currentElapsedTime, envVars, now,
                    watches, intervals, nextHandle, oneShots, queryPending,
                    mounted, staleShots >>

\* the error callback ending the session as a failed start does
WatchError_StopsTracking(code, message) ==
    /\ watches # {}
    /\ error' = watchErrorMessage(code, message, userAgent)
    /\ stopTracking
    /\ UNCHANGED << distance, positions, watchId, permissionStatus,
                    startTime, currentElapsedTime, envVars, now, nextHandle,
                    oneShots, queryPending, mounted, staleShots,
                    awaitingFirst, readingCleared >>

\* the error callback of a registered watch
WatchError(code, message) ==
    /\ watches # {}
    /\ error' = watchErrorMessage(code, message, userAgent)
    /\ UNCHANGED << tracking, distance, positions, watchId, permissionStatus,
                    startTime, endTime, elapsedTimeInterval,
                    currentElapsedTime, envVars, now, watches, intervals,
                    nextHandle, oneShots, queryPending, mounted, staleShots,
                    awaitingFirst,
                    readingCleared >>

\* the callback of a registered interval.  With startTime null,
\* formatElapsedTime(startTime!) throws a TypeError at start.getTime() and
\* the callback ends, nothing assigned.
Tick ==
    /\ intervals # {}
    /\ currentElapsedTime' =
           IF startTime # Null
               THEN formatElapsedTime(startTime[1], now, timeZone)
               ELSE currentElapsedTime
    /\ UNCHANGED << tracking, distance, positions, watchId, error,
                    permissionStatus, startTime, endTime, elapsedTimeInterval,
                    envVars, now, watches, intervals, nextHandle, oneShots,
                    queryPending, mounted, staleShots, awaitingFirst,
                    readingCleared >>

\* on:click of the Stop button, rendered {:else} of {#if !tracking}
ClickStop ==
    /\ mounted
    /\ tracking
    /\ stopTracking
    /\ staleShots' = oneShots
    /\ UNCHANGED << distance, positions, watchId, error, permissionStatus,
                    startTime, currentElapsedTime, envVars, now, nextHandle,
                    oneShots, queryPending, mounted, awaitingFirst,
                    readingCleared >>

\* the Reset button without disabled={tracking}
ClickReset_AlwaysEnabled ==
    /\ mounted
    /\ resetTracking
    /\ UNCHANGED << tracking, watchId, permissionStatus, elapsedTimeInterval,
                    envVars, now, watches, intervals, nextHandle, oneShots,
                    queryPending, mounted, staleShots, awaitingFirst,
                    readingCleared >>

\* on:click of the Reset button, disabled={tracking}
ClickReset ==
    /\ mounted
    /\ ~tracking
    /\ resetTracking
    /\ UNCHANGED << tracking, watchId, permissionStatus, elapsedTimeInterval,
                    envVars, now, watches, intervals, nextHandle, oneShots,
                    queryPending, mounted, staleShots, awaitingFirst,
                    readingCleared >>

\* navigator.permissions.query resolves (checkLocationPermission after its
\* await): the state is read and the change listener is added
PermissionQueryResolved(state) ==
    /\ queryPending
    /\ queryPending' = FALSE
    /\ permissionStatus' = Some(state)
    /\ UNCHANGED << tracking, distance, positions, watchId, error, startTime,
                    endTime, elapsedTimeInterval, currentElapsedTime,
                    envVars, now, watches, intervals, nextHandle, oneShots,
                    mounted, staleShots, awaitingFirst,
                    readingCleared >>

\* the 'change' listener of the PermissionStatus
PermissionChange(state) ==
    /\ permissionStatus # Null
    /\ permissionStatus # Some(state)
    /\ permissionStatus' = Some(state)
    /\ UNCHANGED << tracking, distance, positions, watchId, error, startTime,
                    endTime, elapsedTimeInterval, currentElapsedTime,
                    envVars, now, watches, intervals, nextHandle, oneShots,
                    queryPending, mounted, staleShots, awaitingFirst,
                    readingCleared >>

\* the cleanup returned to onMount: the component is destroyed
Destroy ==
    /\ mounted
    /\ mounted' = FALSE
    /\ IF tracking
          THEN stopTracking
          ELSE UNCHANGED << watches, tracking, endTime, intervals,
                            elapsedTimeInterval >>
    /\ staleShots' = oneShots
    /\ UNCHANGED << distance, positions, watchId, error, permissionStatus,
                    startTime, currentElapsedTime, envVars, now, nextHandle,
                    oneShots, queryPending, awaitingFirst,
                    readingCleared >>

\* stopTracking called while the session is Idle.  No control of the page
\* does so (the Stop button is rendered while tracking only, the teardown
\* tests tracking first): the call is one made on the function itself.
StopWhileIdle ==
    /\ ~tracking
    /\ stopTracking
    /\ staleShots' = oneShots
    /\ UNCHANGED << distance, positions, watchId, error, permissionStatus,
                    startTime, currentElapsedTime, envVars, now, nextHandle,
                    oneShots, queryPending, mounted, awaitingFirst,
                    readingCleared >>

\* a second passes
ClockAdvance ==
    /\ now < MaxNow
    /\ now' = now + 1
    /\ UNCHANGED << progVars, envVars, watches, intervals, nextHandle,
                    oneShots, queryPending, mounted, staleShots,
                    awaitingFirst,
                    readingCleared >>

\* The callbacks the event loop may run next, the platform drawing its
\* deliveries from the given sets.
NextOver(coords, codes, messages, states) ==
    \/ ClickStart
    \/ \E stale \in BOOLEAN : OneShotSuccess(stale)
    \/ \E stale \in BOOLEAN, code \in codes, message \in messages :
            OneShotFailure(stale, code, message)
    \/ \E position \in coords : WatchSuccess(position)
    \/ \E code \in codes, message \in messages : WatchError(code, message)
    \/ Tick
    \/ ClickStop
    \/ ClickReset
    \/ \E state \in states : PermissionQueryResolved(state)
    \/ \E state \in states : PermissionChange(state)
    \/ Destroy
    \/ ClockAdvance

(***************************************************************************)
(* Specifications.  Every one runs every callback; they differ in the sets *)
(* the platform draws its deliveries from, each rich in what its claims    *)
(* are about and small in the rest.                                        *)
(***************************************************************************)
DesktopAgent == <<"Mozilla", "Windows NT", "Firefox">>

\* sessions and distance: two nearby points, one error
Init == InitOver({DesktopAgent}, {0})

Next == NextOver(NearCoords, {2}, Messages, PermissionStates)

Spec == Init /\ [][Next]_vars

\* distance over the whole globe: antipodal points too
NextGlobe == NextOver(Coords, {2}, Messages, PermissionStates)

SpecGlobe == Init /\ [][NextGlobe]_vars

\* errors: every code and user agent, one point
InitErrors == InitOver(UserAgents, {0})

NextErrors == NextOver({<<12, 0>>}, ErrorCodes, Messages, PermissionStates)

SpecErrors == InitErrors /\ [][NextErrors]_vars

\* the host's time zone: UTC and UTC+5:30
InitZones == InitOver({DesktopAgent}, TimeZones)

SpecZones == InitZones /\ [][Next]_vars

\* watch handles that start at 0 or at 1
InitOpaque == InitWith({DesktopAgent}, {0}, HandleBases)

SpecOpaque == InitOpaque /\ [][Next]_vars

\* stopTracking as a function, callable in every state of the component
NextStop == Next \/ StopWhileIdle

SpecStop == Init /\ [][NextStop]_vars

(***************************************************************************)
(* Properties.                                                             *)
(***************************************************************************)

\* C1: the first Reading delivered after a successful startTracking leaves
\* `distance` unchanged, in every session (so also in a session started
\* after a stop with no reset in between); stated here for an Active
\* session that is the only one registered and whose request no stop
\* overtook.
C1_FirstReadingAddsNothing ==
    [][ ( /\ awaitingFirst = "fresh" /\ awaitingFirst' = "no"
          /\ tracking /\ watches = {watchId[1]} )
        => distance' = distance ]_vars

\* C2: once stopTracking has run (tracking goes from true to false), every
\* subscription watchPosition registered is cancelled, so no watch callback
\* can fire while the session is Idle.
C2_StopCancelsEverySubscription ==
    [][ (tracking /\ ~tracking') => watches' = {} ]_vars

\* C3: in every reachable state at most one watchPosition subscription is
\* registered and at most one elapsed-time interval is running.
C3_AtMostOneSession ==
    /\ Cardinality(watches) <= 1
    /\ Cardinality(intervals) <= 1

\* C4: a one-shot response that arrives after a stop or a teardown overtook
\* its request registers no subscription, starts no interval and leaves
\* tracking, startTime and endTime as they were.
C4_LateResponseIgnored ==
    [][ (staleShots' < staleShots)
        => UNCHANGED << watches, intervals, tracking, startTime, endTime >> ]_vars

\* C5: Reset sets distance to 0 and empties positions, and it acts only
\* while tracking is false: no step taken while tracking is true clears
\* distance or drops a retained Reading.
C5_ResetOnlyWhileIdle ==
    [][ /\ ClickReset => ( /\ ~tracking
                           /\ distance' = 0
                           /\ positions' = << >> )
        /\ tracking => ( /\ Len(positions') >= Len(positions)
                         /\ (distance' = 0 => distance = 0) ) ]_vars

\* C5 witness: a session was started and stopped, then Reset ran
C5_ResetAfterSession ==
    /\ ~tracking
    /\ watchId # Null
    /\ startTime = Null
    /\ distance = 0
    /\ positions = << >>

\* C6: every step leaves distance alone, or adds to it the non-negative
\* haversine distance from the retained Reading to the one delivered, or
\* (Reset) sets it to 0; distance is >= 0 in every state.
C6_DistanceStep ==
    \/ distance' = distance
    \/ /\ Len(positions) > 0
       /\ Len(positions') = Len(positions) + 1
       /\ LET prev == positions[Len(positions)]
              new  == positions'[Len(positions')]
              inc  == calculateDistance(prev[1], prev[2], new[1], new[2])
          IN  /\ inc >= 0
              /\ distance' = distance + inc
    \/ /\ ClickReset
       /\ distance' = 0

C6_DistanceOnlyGrows ==
    [][ C6_DistanceStep /\ distance >= 0 /\ distance' >= 0 ]_vars

\* calculateDistance between any two of the points, tabulated
C7_Between ==
    [ p \in Coords, q \in Coords |-> calculateDistance(p[1], p[2], q[1], q[2]) ]

RECURSIVE C7_SumPairs(_)
\* the sum of calculateDistance over the consecutive pairs of a sequence
C7_SumPairs(poss) ==
    IF Len(poss) <= 1 THEN 0
    ELSE LET n == Len(poss)
         IN  Plus(C7_SumPairs(SubSeq(poss, 1, n - 1)),
                  C7_Between[poss[n - 1], poss[n]])

\* C7: distance is the sum of calculateDistance over the consecutive pairs
\* of the Readings accepted since the last reset (0 for at most one).
C7_DistanceIsSumOfPairs == distance = C7_SumPairs(positions)

\* C7 witness: three Readings accepted, each away from the one before
C7_ThreeReadings ==
    /\ Len(positions) = 3
    /\ positions[1] # positions[2]
    /\ positions[2] # positions[3]
    /\ distance > 0

\* a start that failed: the one-shot request was rejected (a request left
\* flight and no handle was handed out), or geolocation is unsupported
C8_FailedStart ==
    \/ oneShots' < oneShots /\ nextHandle' = nextHandle
    \/ ~geolocation /\ error' = UnsupportedMessage /\ error # error'

\* C8: a failed start leaves tracking false and error non-null, registers
\* no subscription and no interval, and leaves startTime, endTime, distance
\* and positions unchanged.
C8_FailedStartLeavesIdle ==
    [][ C8_FailedStart
        => ( /\ ~tracking'
             /\ error' # Null
             /\ UNCHANGED << watches, intervals, startTime, endTime,
                             distance, positions >> ) ]_vars

\* the classification table: the class of a displayed message
ClassOf(e) ==
    IF e = Null THEN "None"
    ELSE IF e = UnsupportedMessage THEN "Unsupported"
    ELSE IF e[1] = "Location permission denied.\n\n" THEN "PermissionDenied"
    ELSE IF e = << "Unable to determine your location. Please check if location services are enabled." >>
        THEN "PositionUnavailable"
    ELSE IF e = << "Location request timed out. Please try again." >>
        THEN "Timeout"
    ELSE "Unknown"

\* the classification table: the class of a failure condition
ClassOfCode(code) ==
    IF code = 1 THEN "PermissionDenied"
    ELSE IF code = 2 THEN "PositionUnavailable"
    ELSE IF code = 3 THEN "Timeout"
    ELSE "Unknown"

\* C9: a rejected one-shot request surfaces the class of its condition:
\* 1 PermissionDenied, 2 PositionUnavailable, 3 Timeout, else Unknown.
C9_StartFailureClassified ==
    [][ \A code \in ErrorCodes, message \in Messages :
            (\E stale \in BOOLEAN : OneShotFailure(stale, code, message))
            => ClassOf(error') = ClassOfCode(code) ]_vars

\* the message C10 expects for an error delivered to the subscription
C10_Expected(code, message, ua) ==
    LET has(token) == \E i \in 1..Len(ua) : ua[i] = token
    IN  IF code = 1 THEN
            << "Location permission denied.\n\n",
               IF has("iPhone") \/ has("iPad") \/ has("iPod")
                   THEN IOSInstructions
               ELSE IF has("Android") THEN AndroidInstructions
               ELSE GenericInstructions >>
        ELSE IF code = 2 THEN
            << "Unable to determine your location. Please check if location services are enabled." >>
        ELSE IF code = 3 THEN
            << "Location request timed out. Please try again." >>
        ELSE << "Error: ", message >>

\* C10: an error delivered to the subscription is shown by its code: 1 the
\* permission text with the iOS, else Android, else generic instructions
\* for the user agent, 2 position unavailable, 3 timeout, else the
\* platform's message.  (A WatchError step changes nothing but `error`;
\* the first three conjuncts only spare the other steps the quantifier.)
C10_WatchErrorClassified ==
    [][ ( /\ error' # error
          /\ oneShots' = oneShots
          /\ positions' = positions )
        => \A code \in ErrorCodes, message \in Messages :
                WatchError(code, message)
                => error' = C10_Expected(code, message, userAgent) ]_vars

\* C10 witness: permission denied while watching on a user agent that
\* names both iPhone and Android: the iOS text is shown
C10_DeniedOnIPhoneAndAndroid ==
    /\ watches # {}
    /\ Test({"Android"}, userAgent)
    /\ Test({"iPhone"}, userAgent)
    /\ error = << "Location permission denied.\n\n", IOSInstructions >>

\* C11: an error delivered to the subscription while tracking is true
\* changes `error` only: tracking stays true, the subscriptions and the
\* intervals stay registered, distance, positions, startTime and endTime
\* keep their values.
C11_WatchErrorChangesErrorOnly ==
    [][ \A code \in ErrorCodes, message \in Messages :
            (tracking /\ WatchError(code, message))
            => ( /\ tracking'
                 /\ UNCHANGED << watches, intervals, watchId,
                                 elapsedTimeInterval, distance, positions,
                                 startTime, endTime >> ) ]_vars

\* C11 witness: a timeout was delivered to a running session, which goes
\* on: its Reading is retained, its subscription and interval registered
C11_TimeoutWhileTracking ==
    /\ tracking
    /\ error = << "Location request timed out. Please try again." >>
    /\ watches = {watchId[1]}
    /\ intervals = {elapsedTimeInterval[1]}
    /\ Len(positions) = 1
    /\ startTime # Null
    /\ endTime = Null

\* C12: right after the success callback of the subscription has run,
\* `error` is null, whatever was showing before.
C12_ReadingClearsError ==
    [][ \A position \in Coords : WatchSuccess(position) => error' = Null ]_vars

\* C12 witness: the last Reading delivered found an error showing, and
\* none shows now
C12_ErrorCleared ==
    /\ readingCleared
    /\ error = Null
    /\ positions # << >>

\* C13: stopTracking called while tracking is false changes nothing:
\* tracking, endTime, startTime, distance, positions, error and the elapsed
\* time shown keep their values, before any session and after one.
C13_StopWhileIdleChangesNothing ==
    [][ StopWhileIdle
        => UNCHANGED << tracking, endTime, startTime, distance, positions,
                        error, currentElapsedTime >> ]_vars

\* C14: stopTracking run while tracking is true (by the Stop button or by
\* the teardown) ends the session whatever handle watchPosition returned:
\* the subscription of watchId is cancelled, tracking is false, endTime is
\* set and the interval of elapsedTimeInterval is cleared.
C14_StopEndsTheSession ==
    [][ (tracking /\ (ClickStop \/ Destroy))
        => ( /\ ~tracking'
             /\ endTime' # Null
             /\ watchId[1] \notin watches'
             /\ elapsedTimeInterval[1] \notin intervals' ) ]_vars

\* C15: while the session is Idle the elapsed time shown keeps its value:
\* no step taken with tracking false, and leaving it false, changes
\* currentElapsedTime, but Reset, which sets it to '00:00:00'.
C15_DisplayFrozenWhileIdle ==
    [][ (~tracking /\ ~tracking')
        => \/ currentElapsedTime' = currentElapsedTime
           \/ ClickReset /\ currentElapsedTime' = ZeroElapsed ]_vars

\* elapsed durations in seconds, 3661 among them
C16_Durations == { 0, 1, 59, 60, 3599, 3600, 3661, 86399, 90061 }

\* H:MM:SS of s seconds: H = floor(s / 3600), MM = floor(s / 60) mod 60,
\* SS = s mod 60, the last two padded to two digits
C16_HMS(s) ==
    LET two(n) == << n \div 10, n % 10 >>
    IN  << toString(s \div 3600), two((s \div 60) % 60), two(s % 60) >>

\* C16: whenever the timer fires in a session, the elapsed time shown is
\* H:MM:SS of the seconds since startTime, and formatElapsedTime renders
\* each of the durations so, 3661 as 1:01:01, in the time zone of the host.
C16_ElapsedTimeRendered ==
    [][ (Tick /\ startTime # Null)
        => /\ currentElapsedTime' = C16_HMS(now - startTime[1])
           /\ \A s \in C16_Durations :
                  formatElapsedTime(startTime[1], startTime[1] + s, timeZone)
                      = C16_HMS(s)
           /\ formatElapsedTime(0, 3661, timeZone)
                  = << <<1>>, <<0, 1>>, <<0, 1>> >> ]_vars

\* C17: at most one Reading is retained in every reachable state, a new
\* Reading replacing the one retained.
C17_OneReadingRetained == Len(positions) <= 1

\* C18: calculateDistance of two Readings of the same latitude and
\* longitude is 0, and a Reading at the coordinates of the one retained
\* last leaves distance unchanged.
C18_SamePlaceAddsNothing ==
    [][ ( /\ positions # << >>
          /\ Len(positions') = Len(positions) + 1
          /\ positions'[Len(positions')] = positions[Len(positions)] )
        => ( /\ \A p \in Coords : Distances[p, p] = 0
             /\ distance' = distance ) ]_vars

\* C18 witness: after some distance was covered, a Reading came in at the
\* place of the one before
C18_RepeatedReading ==
    /\ Len(positions) = 3
    /\ positions[1] # positions[2]
    /\ positions[2] = positions[3]
    /\ distance = Distances[positions[1], positions[2]]
    /\ distance > 0

\* C19: a subscription or an interval is registered, startTime is set and
\* tracking becomes true only in the step in which a one-shot request
\* succeeds, which does all of them; so whenever tracking is true a
\* subscription is registered, startTime is not null and endTime is null.
C19_TrackingAfterOneShotOnly ==
    [][ /\ ( \/ ~(watches' \subseteq watches)
             \/ ~(intervals' \subseteq intervals)
             \/ (startTime' # Null /\ startTime' # startTime)
             \/ (tracking' /\ ~tracking) )
           => ( /\ oneShots' = oneShots - 1
                /\ \E stale \in BOOLEAN : OneShotSuccess(stale) )
        /\ tracking' => ( /\ watches' # {}
                          /\ startTime' # Null
                          /\ endTime' = Null ) ]_vars

\* C19 witness: a second session is running, started after the first was
\* stopped (which set endTime)
C19_SecondSessionRunning ==
    /\ tracking
    /\ awaitingFirst = "fresh"
    /\ nextHandle = FirstHandle + 2
    /\ watches = {watchId[1]}
    /\ intervals = {elapsedTimeInterval[1]}
    /\ startTime # Null
    /\ endTime = Null

\* C20: whenever the callback of the elapsed-time interval can run (an
\* interval is registered), startTime is not null, so that
\* formatElapsedTime(startTime!) does not throw.
C20_TickFindsStartTime == intervals # {} => startTime # Null

====
